---- MODULE Spec2Model ----
(***************************************************************************)
(* Model of expense_tracker.py: the SQLite-backed ledger (expenses and     *)
(* settings tables), the reporting helpers and the CLI summary handler.    *)
(*                                                                         *)
(* Text that the code parses or compares character by character (dates,    *)
(* amounts typed by the user, the stored budget) is a sequence of          *)
(* one-character strings.  Categories and notes are only ever compared for *)
(* equality and are plain strings.                                         *)
(*                                                                         *)
(* Scope of the inputs: amounts are integer-valued, so every sum the code  *)
(* computes in floating point is exact and independent of the order of     *)
(* summation; dates lie in the year 2024, where %Y prints four digits.     *)
(***************************************************************************)
EXTENDS Integers, Sequences, FiniteSets, TLC

\* ------------------------------------------------------------------------
\* Bounds of the model
\* ------------------------------------------------------------------------
MaxId == 2        \* rows ever inserted into expenses
MaxTicks == 1     \* midnights that pass while the program is used

\* ------------------------------------------------------------------------
\* Text helpers
\* ------------------------------------------------------------------------
Digits == {"0", "1", "2", "3", "4", "5", "6", "7", "8", "9"}

DigitVal(c) ==
  CASE c = "0" -> 0 [] c = "1" -> 1 [] c = "2" -> 2 [] c = "3" -> 3
    [] c = "4" -> 4 [] c = "5" -> 5 [] c = "6" -> 6 [] c = "7" -> 7
    [] c = "8" -> 8 [] c = "9" -> 9

DigitChar(n) ==
  CASE n = 0 -> "0" [] n = 1 -> "1" [] n = 2 -> "2" [] n = 3 -> "3"
    [] n = 4 -> "4" [] n = 5 -> "5" [] n = 6 -> "6" [] n = 7 -> "7"
    [] n = 8 -> "8" [] n = 9 -> "9"

\* byte value of a character (SQLite compares TEXT with memcmp)
Ord(c) ==
  CASE c = "-" -> 45 [] c = "." -> 46 [] c = "/" -> 47
    [] c \in Digits -> 48 + DigitVal(c)
    [] OTHER -> 97

\* a <= b from position i on, the earlier characters being equal
RECURSIVE TextLeqFrom(_, _, _)
TextLeqFrom(a, b, i) ==
  IF i > Len(a) THEN TRUE
  ELSE IF i > Len(b) THEN FALSE
  ELSE IF a[i] = b[i] THEN TextLeqFrom(a, b, i + 1)
  ELSE Ord(a[i]) < Ord(b[i])

\* a <= b in SQLite's BINARY collation
TextLeq(a, b) == TextLeqFrom(a, b, 1)

AllDigits(s) == \A i \in 1..Len(s) : s[i] \in Digits

RECURSIVE NumVal(_)
NumVal(s) ==
  IF s = <<>> THEN 0
  ELSE 10 * NumVal(SubSeq(s, 1, Len(s) - 1)) + DigitVal(s[Len(s)])

RECURSIVE StrNat(_)
StrNat(n) ==
  IF n < 10 THEN <<DigitChar(n)>>
  ELSE StrNat(n \div 10) \o <<DigitChar(n % 10)>>

Pad2(n) == IF n < 10 THEN <<"0", DigitChar(n)>> ELSE StrNat(n)

\* Optional values: None, or Some(v)
None == <<>>
Some(v) == <<v>>

\* ------------------------------------------------------------------------
\* datetime
\* ------------------------------------------------------------------------
IsLeap(y) == (y % 4 = 0 /\ y % 100 # 0) \/ y % 400 = 0

DaysInMonth(y, m) ==
  IF m = 2 THEN (IF IsLeap(y) THEN 29 ELSE 28)
  ELSE IF m \in {4, 6, 9, 11} THEN 30 ELSE 31

\* datetime.datetime.strptime(s, DATE_FMT).date(): None when it raises
strptime(s) ==
  LET n == Len(s)
      p == IF n >= 7 /\ s[7] = "-" THEN 7 ELSE 8
  IN  IF /\ n \in 8..10
         /\ AllDigits(SubSeq(s, 1, 4))
         /\ s[5] = "-"
         /\ p < n
         /\ s[p] = "-"
         /\ p > 6
         /\ n - p \in 1..2
         /\ AllDigits(SubSeq(s, 6, p - 1))
         /\ AllDigits(SubSeq(s, p + 1, n))
      THEN LET y == NumVal(SubSeq(s, 1, 4))
               m == NumVal(SubSeq(s, 6, p - 1))
               d == NumVal(SubSeq(s, p + 1, n))
           IN  IF y >= 1 /\ m \in 1..12 /\ d \in 1..31 /\ d <= DaysInMonth(y, m)
               THEN Some([year |-> y, month |-> m, day |-> d])
               ELSE None
      ELSE None

\* date.strftime(DATE_FMT): %Y as glibc prints it (no padding), %m and %d
\* zero-padded to two digits
strftime(d) == StrNat(d.year) \o <<"-">> \o Pad2(d.month) \o <<"-">> \o Pad2(d.day)

NextDay(d) ==
  IF d.day < DaysInMonth(d.year, d.month) THEN [d EXCEPT !.day = d.day + 1]
  ELSE IF d.month < 12 THEN [d EXCEPT !.month = d.month + 1, !.day = 1]
  ELSE [year |-> d.year + 1, month |-> 1, day |-> 1]

PrevDay(d) ==
  IF d.day > 1 THEN [d EXCEPT !.day = d.day - 1]
  ELSE IF d.month > 1
       THEN [d EXCEPT !.month = d.month - 1, !.day = DaysInMonth(d.year, d.month - 1)]
  ELSE [year |-> d.year - 1, month |-> 12, day |-> 31]

\* d - datetime.timedelta(days=k)
RECURSIVE MinusDays(_, _)
MinusDays(d, k) == IF k = 0 THEN d ELSE MinusDays(PrevDay(d), k - 1)

RECURSIVE PlusDays(_, _)
PlusDays(d, k) == IF k = 0 THEN d ELSE PlusDays(NextDay(d), k - 1)

\* ------------------------------------------------------------------------
\* float() and str() on the integer-valued amounts of the model
\* ------------------------------------------------------------------------
\* float(text): None when it raises ValueError
float(t) ==
  LET neg  == Len(t) >= 1 /\ t[1] = "-"
      body == IF neg THEN Tail(t) ELSE t
      n    == Len(body)
      frac == n >= 3 /\ body[n - 1] = "." /\ body[n] = "0"
      int  == IF frac THEN SubSeq(body, 1, n - 2) ELSE body
  IN  IF int # <<>> /\ AllDigits(int)
      THEN Some(IF neg THEN 0 - NumVal(int) ELSE NumVal(int))
      ELSE None

\* str(x) of an integral float
str(x) ==
  IF x < 0 THEN <<"-">> \o StrNat(0 - x) \o <<".", "0">>
  ELSE StrNat(x) \o <<".", "0">>

\* ------------------------------------------------------------------------
\* Inputs
\* ------------------------------------------------------------------------
NoText == <<>>
D_0229 == <<"2", "0", "2", "4", "-", "0", "2", "-", "2", "9">>
D_0301 == <<"2", "0", "2", "4", "-", "0", "3", "-", "0", "1">>
D_3_1 == <<"2", "0", "2", "4", "-", "3", "-", "1">>
D_Slash == <<"0", "3", "/", "0", "1", "/", "2", "0", "2", "4">>
D_0230 == <<"2", "0", "2", "4", "-", "0", "2", "-", "3", "0">>
A_5 == <<"5">>
A_10 == <<"1", "0">>
A_abc == <<"a", "b", "c">>

\* the day the program is first started
StartDay == [year |-> 2024, month |-> 2, day |-> 29]

\* arguments of add_expense_db
AddInputs ==
  { [category |-> "Food", amount |-> A_5,   date_str |-> NoText,  note |-> ""],
    [category |-> "Rent", amount |-> A_10,  date_str |-> D_3_1,   note |-> "lunch"],
    [category |-> "Rent", amount |-> A_5,   date_str |-> D_0229,  note |-> "feb"],
    [category |-> "",     amount |-> A_5,   date_str |-> D_0301,  note |-> ""],
    [category |-> "Food", amount |-> A_abc, date_str |-> D_0301,  note |-> ""],
    [category |-> "Food", amount |-> A_5,   date_str |-> D_Slash, note |-> ""],
    [category |-> "Rent", amount |-> A_5,   date_str |-> D_0230,  note |-> ""] }

\* arguments of set_budget_limit
BudgetInputs == {0, 10}

\* start_date / end_date arguments (NoText is Python's None or "")
StartInputs == {NoText, D_0229, D_0301}
EndInputs == {NoText, D_0301}

\* start_date / end_date arguments of get_summary_range
BoundInputs == {D_0229, D_0301}

\* arguments of get_summary_period
PeriodInputs == {"weekly", "monthly", "yearly"}

\* ------------------------------------------------------------------------
\* State
\* ------------------------------------------------------------------------
VARIABLES
  expenses,          \* rows of table expenses
  sqlite_sequence,   \* AUTOINCREMENT counter of table expenses
  settings,          \* rows of table settings
  today,             \* datetime.date.today()
  issued,            \* history: every id ever assigned
  lastBudget,        \* history: argument of the latest set_budget_limit
  last               \* history: the latest call, its result and the state before it

vars == <<expenses, sqlite_sequence, settings, today, issued, lastBudget, last>>

Return(v) == [status |-> "ok", value |-> v]
Raise(msg) == [status |-> "error", value |-> msg]

Pre == [expenses |-> expenses, settings |-> settings, issued |-> issued,
        today |-> today]

Call(op, args, ret) == [op |-> op, args |-> args, ret |-> ret, pre |-> Pre]

\* ------------------------------------------------------------------------
\* SQL helpers
\* ------------------------------------------------------------------------
Max(a, b) == IF a >= b THEN a ELSE b

MaxRowId(rows) ==
  IF rows = {} THEN 0
  ELSE LET top == CHOOSE r \in rows : \A o \in rows : o.id <= r.id IN top.id

\* id INTEGER PRIMARY KEY (without AUTOINCREMENT): largest rowid in the table + 1
RowIdReuse(rows, seq) == MaxRowId(rows) + 1

\* id INTEGER PRIMARY KEY AUTOINCREMENT: larger than every rowid ever used
NextRowId(rows, seq) == Max(seq, MaxRowId(rows)) + 1

RECURSIVE SumAmount(_)
SumAmount(rows) ==
  IF rows = {} THEN 0
  ELSE LET r == CHOOSE x \in rows : TRUE IN r.amount + SumAmount(rows \ {r})

\* SUM(amount): NULL over no rows
SqlSum(rows) == IF rows = {} THEN None ELSE Some(SumAmount(rows))

\* WHERE date >= ? AND date <= ?
WhereDateBetween(rows, start_date, end_date) ==
  {r \in rows : TextLeq(start_date, r.date) /\ TextLeq(r.date, end_date)}

\* ------------------------------------------------------------------------
\* Budget helpers
\* ------------------------------------------------------------------------
\* INSERT OR IGNORE: an existing budget row wins
set_budget_keep_old(rows, amount) ==
  IF \E r \in rows : r.key = "budget" THEN rows
  ELSE rows \cup {[key |-> "budget", value |-> str(amount)]}

\* INSERT OR REPLACE INTO settings (key, value) VALUES ('budget', ?)
set_budget_limit(rows, amount) ==
  {r \in rows : r.key # "budget"} \cup {[key |-> "budget", value |-> str(amount)]}

get_budget_limit(rows) ==
  LET found == {r \in rows : r.key = "budget"}
  IN  IF found # {} THEN float((CHOOSE r \in found : TRUE).value) ELSE None

\* month-to-date total that also counts rows dated after today
get_monthly_total_no_end(rows, day) ==
  LET start == [day EXCEPT !.day = 1]
      s == SqlSum({r \in rows : TextLeq(strftime(start), r.date)})
  IN  IF s # None /\ s[1] # 0 THEN s[1] ELSE 0

get_monthly_total(rows, day) ==
  LET start == [day EXCEPT !.day = 1]
      end == day
      s == SqlSum(WhereDateBetween(rows, strftime(start), strftime(end)))
  IN  IF s # None /\ s[1] # 0 THEN s[1] ELSE 0

\* ------------------------------------------------------------------------
\* Ledger operations
\* ------------------------------------------------------------------------
\* lines 60-67: the date to store, None when ValueError is raised
NormalizeDate(date_str, day) ==
  IF date_str = NoText THEN Some(strftime(day))
  ELSE LET d == strptime(date_str)
       IN  IF d = None THEN None ELSE Some(strftime(d[1]))

\* the warning string of line 83, kept as its two figures
Warning(total, budget) == [total |-> total, budget |-> budget]

\* add_expense_db that opens the row before it validates the amount
add_expense_db_write_first(category, amount, date_str, note) ==
  LET d == NormalizeDate(date_str, today)
      a == float(amount)
      id == NextRowId(expenses, sqlite_sequence)
  IN  IF d = None
      THEN [rows |-> expenses, seq |-> sqlite_sequence,
            ret |-> Raise("Date must be in YYYY-MM-DD format")]
      ELSE LET row == [id |-> id, category |-> category,
                       amount |-> IF a = None THEN 0 ELSE a[1],
                       date |-> d[1], note |-> note]
               rows == expenses \cup {row}
               budget == get_budget_limit(settings)
           IN  IF a = None
               THEN [rows |-> rows, seq |-> id,
                     ret |-> Raise("could not convert string to float")]
               ELSE [rows |-> rows, seq |-> id,
                     ret |-> Return(
                       IF budget # None /\ get_monthly_total(rows, today) > budget[1]
                       THEN Some(Warning(get_monthly_total(rows, today), budget[1]))
                       ELSE None)]

\* add_expense_db: the table, the counter and the result after the call
add_expense_db(category, amount, date_str, note) ==
  LET d == NormalizeDate(date_str, today)
      a == float(amount)
  IN  IF d = None
      THEN [rows |-> expenses, seq |-> sqlite_sequence,
            ret |-> Raise("Date must be in YYYY-MM-DD format")]
      ELSE IF a = None
      THEN [rows |-> expenses, seq |-> sqlite_sequence,
            ret |-> Raise("could not convert string to float")]
      ELSE LET id == NextRowId(expenses, sqlite_sequence)
               row == [id |-> id, category |-> category, amount |-> a[1],
                       date |-> d[1], note |-> note]
               rows == expenses \cup {row}
               budget == get_budget_limit(settings)
           IN  [rows |-> rows, seq |-> id,
                ret |-> Return(
                  IF budget # None /\ get_monthly_total(rows, today) > budget[1]
                  THEN Some(Warning(get_monthly_total(rows, today), budget[1]))
                  ELSE None)]

\* DELETE that also removes every older row
delete_entry_db_upto(rows, entry_id) == {r \in rows : r.id > entry_id}

\* DELETE FROM expenses WHERE id = ?
delete_entry_db(rows, entry_id) == {r \in rows : r.id # entry_id}

\* ORDER BY date DESC, id DESC: r comes before o
RowBefore(r, o) ==
  \/ ~TextLeq(r.date, o.date)
  \/ r.date = o.date /\ r.id > o.id

RECURSIVE OrderByDateIdDesc(_)
OrderByDateIdDesc(rows) ==
  IF rows = {} THEN <<>>
  ELSE LET top == CHOOSE r \in rows : \A o \in rows \ {r} : RowBefore(r, o)
       IN  <<top>> \o OrderByDateIdDesc(rows \ {top})

\* Python truthiness of a text argument
Truthy(t) == t # NoText

\* get_entries_range that filters as soon as one bound is given
get_entries_range_any_bound(rows, start_date, end_date) ==
  IF Truthy(start_date) \/ Truthy(end_date)
  THEN OrderByDateIdDesc(WhereDateBetween(rows, start_date, end_date))
  ELSE OrderByDateIdDesc(rows)

get_entries_range(rows, start_date, end_date) ==
  IF Truthy(start_date) /\ Truthy(end_date)
  THEN OrderByDateIdDesc(WhereDateBetween(rows, start_date, end_date))
  ELSE OrderByDateIdDesc(rows)

\* ------------------------------------------------------------------------
\* Reporting
\* ------------------------------------------------------------------------
\* GROUP BY category with SUM(amount): the set of (category, total) rows
GroupByCategory(rows) ==
  { <<c, SumAmount({r \in rows : r.category = c})>> : c \in {r.category : r \in rows} }

\* ORDER BY total DESC: every order of the groups SQLite may return
OrderByTotalDesc(groups) ==
  { q \in [1..Cardinality(groups) -> groups] :
      /\ \A i, j \in 1..Cardinality(groups) : i # j => q[i] # q[j]
      /\ \A i, j \in 1..Cardinality(groups) : i < j => q[i][2] >= q[j][2] }

\* get_summary_range with an exclusive lower bound
get_summary_range_after_start(rows, start_date, end_date) ==
  OrderByTotalDesc(GroupByCategory(
    {r \in rows : ~TextLeq(r.date, start_date) /\ TextLeq(r.date, end_date)}))

\* get_summary_range: the results the query may return
get_summary_range(rows, start_date, end_date) ==
  OrderByTotalDesc(GroupByCategory(WhereDateBetween(rows, start_date, end_date)))

\* get_summary_period whose month starts 30 days back
PeriodRange30(period, day) ==
  IF period = "weekly" THEN Some(<<MinusDays(day, 6), day>>)
  ELSE IF period = "monthly" THEN Some(<<MinusDays(day, 30), day>>)
  ELSE None

\* lines 100-108: (start, end) of the period, None when ValueError is raised
PeriodRange(period, day) ==
  IF period = "weekly" THEN Some(<<MinusDays(day, 6), day>>)
  ELSE IF period = "monthly" THEN Some(<<[day EXCEPT !.day = 1], day>>)
  ELSE None

\* get_summary_period for a recognised period
get_summary_period(rows, period, day) ==
  LET rng == PeriodRange(period, day)[1]
  IN  get_summary_range(rows, strftime(rng[1]), strftime(rng[2]))

\* total = 0.0; for cat, s in rows: total += s
RECURSIVE TotalOf(_)
TotalOf(q) == IF q = <<>> THEN 0 ELSE TotalOf(SubSeq(q, 1, Len(q) - 1)) + q[Len(q)][2]

\* lines 208-212 / 397-405: `if budget:` then `if total > budget`
SummaryWarning(total, budget) ==
  IF budget # None /\ budget[1] # 0 /\ total > budget[1]
  THEN Some(total - budget[1])
  ELSE None

\* ------------------------------------------------------------------------
\* Initial state and actions
\* ------------------------------------------------------------------------
\* init_db on a fresh database file
Init ==
  /\ expenses = {}
  /\ sqlite_sequence = 0
  /\ settings = {}
  /\ today = StartDay
  /\ issued = {}
  /\ lastBudget = None
  /\ last = [op |-> "init_db", args |-> <<>>, ret |-> Return(None),
             pre |-> [expenses |-> {}, settings |-> {}, issued |-> {},
                      today |-> StartDay]]

Add(in) ==
  /\ sqlite_sequence < MaxId
  /\ LET r == add_expense_db(in.category, in.amount, in.date_str, in.note)
     IN  /\ expenses' = r.rows
         /\ sqlite_sequence' = r.seq
         /\ issued' = issued \cup {x.id : x \in r.rows \ expenses}
         /\ last' = Call("add", in, r.ret)
  /\ UNCHANGED <<settings, today, lastBudget>>

Delete(entry_id) ==
  /\ expenses' = delete_entry_db(expenses, entry_id)
  /\ last' = Call("delete", entry_id, Return(None))
  /\ UNCHANGED <<sqlite_sequence, settings, today, issued, lastBudget>>

SetBudget(amount) ==
  /\ settings' = set_budget_limit(settings, amount)
  /\ lastBudget' = Some(amount)
  /\ last' = Call("set_budget", amount, Return(None))
  /\ UNCHANGED <<expenses, sqlite_sequence, today, issued>>

List(start_date, end_date) ==
  /\ last' = Call("list", <<start_date, end_date>>,
                  Return(get_entries_range(expenses, start_date, end_date)))
  /\ UNCHANGED <<expenses, sqlite_sequence, settings, today, issued, lastBudget>>

Summarize(start_date, end_date) ==
  /\ \E q \in get_summary_range(expenses, start_date, end_date) :
       last' = Call("summarize", <<start_date, end_date>>, Return(q))
  /\ UNCHANGED <<expenses, sqlite_sequence, settings, today, issued, lastBudget>>

\* cli_show_summary (show_summary_gui computes the same figures)
ShowSummary(period) ==
  /\ IF PeriodRange(period, today) = None
     THEN last' = Call("show_summary", period, Raise("Unknown period"))
     ELSE \E q \in get_summary_period(expenses, period, today) :
            last' = Call("show_summary", period,
                         Return([rows |-> q, total |-> TotalOf(q),
                                 warning |-> SummaryWarning(TotalOf(q),
                                               get_budget_limit(settings))]))
  /\ UNCHANGED <<expenses, sqlite_sequence, settings, today, issued, lastBudget>>

\* midnight passes
Tick ==
  /\ \E k \in 0..(MaxTicks - 1) : today = PlusDays(StartDay, k)
  /\ today' = NextDay(today)
  /\ UNCHANGED <<expenses, sqlite_sequence, settings, issued, lastBudget, last>>

Next ==
  \/ \E in \in AddInputs : Add(in)
  \/ \E entry_id \in 1..MaxId : Delete(entry_id)
  \/ \E amount \in BudgetInputs : SetBudget(amount)
  \/ \E s \in StartInputs, e \in EndInputs : List(s, e)
  \/ \E s \in BoundInputs, e \in BoundInputs : Summarize(s, e)
  \/ \E period \in PeriodInputs : ShowSummary(period)
  \/ Tick

Spec == Init /\ [][Next]_vars

\* ------------------------------------------------------------------------
\* Vocabulary of the properties: calendar reading of stored dates
\* ------------------------------------------------------------------------
\* t has the shape YYYY-MM-DD
IsCanonical(t) ==
  /\ Len(t) = 10
  /\ t[5] = "-" /\ t[8] = "-"
  /\ \A i \in {1, 2, 3, 4, 6, 7, 9, 10} : t[i] \in Digits

\* the calendar day a canonical text denotes
CanonDay(t) ==
  [year  |-> 1000 * DigitVal(t[1]) + 100 * DigitVal(t[2]) + 10 * DigitVal(t[3]) + DigitVal(t[4]),
   month |-> 10 * DigitVal(t[6]) + DigitVal(t[7]),
   day   |-> 10 * DigitVal(t[9]) + DigitVal(t[10])]

\* a is the same day as b or an earlier one
DayLeq(a, b) ==
  \/ a.year < b.year
  \/ a.year = b.year /\ a.month < b.month
  \/ a.year = b.year /\ a.month = b.month /\ a.day <= b.day

\* the rows dated within [start, end], both canonical texts
Within(rows, start, end) ==
  {r \in rows : /\ DayLeq(CanonDay(start), CanonDay(r.date))
                /\ DayLeq(CanonDay(r.date), CanonDay(end))}

\* the rows dated from the 1st of day's month through day
MonthToDate(rows, day) ==
  {r \in rows : LET d == CanonDay(r.date)
                IN  d.year = day.year /\ d.month = day.month /\ d.day <= day.day}

\* the records of the unfiltered listing
Listed(rows) ==
  LET q == get_entries_range(rows, NoText, NoText) IN {q[i] : i \in 1..Len(q)}

AddOk == last.op = "add" /\ last.ret.status = "ok"
AddFailed == last.op = "add" /\ last.ret.status = "error"

\* the records listed now that were not listed before the latest call
NewRecords == Listed(expenses) \ Listed(last.pre.expenses)

\* ------------------------------------------------------------------------
\* Properties
\* ------------------------------------------------------------------------
\* C1 (as stated): a successful Add makes the unfiltered List contain exactly
\* one new record carrying exactly the supplied category, amount, date and
\* note, leaves every earlier record in place, and gives the new record an id
\* greater than every id issued before, deleted ones included.
C1_AddStoresSuppliedFields ==
  AddOk =>
    /\ Cardinality(NewRecords) = 1
    /\ Listed(last.pre.expenses) \subseteq Listed(expenses)
    /\ \A r \in NewRecords :
         /\ r.category = last.args.category
         /\ Some(r.amount) = float(last.args.amount)
         /\ r.note = last.args.note
         /\ last.args.date_str # NoText => r.date = last.args.date_str
         /\ \A i \in last.pre.issued : r.id > i

\* C1 (amended): as above, except that the stored date is the zero-padded
\* YYYY-MM-DD text of the supplied calendar day (of today when no date is
\* supplied), which differs from the supplied text when that is not padded.
C1_AddStoresCanonicalDate ==
  AddOk =>
    /\ Cardinality(NewRecords) = 1
    /\ Listed(last.pre.expenses) \subseteq Listed(expenses)
    /\ \A r \in NewRecords :
         /\ r.category = last.args.category
         /\ Some(r.amount) = float(last.args.amount)
         /\ r.note = last.args.note
         /\ IsCanonical(r.date)
         /\ CanonDay(r.date) = IF last.args.date_str = NoText
                               THEN last.pre.today
                               ELSE strptime(last.args.date_str)[1]
         /\ \A i \in last.pre.issued : r.id > i

\* an unpadded date is added after an earlier record was deleted
C1_Witness ==
  /\ AddOk
  /\ last.args.date_str = D_3_1
  /\ \E i \in last.pre.issued : \A r \in last.pre.expenses : r.id # i

\* C2: after Delete(id) the unfiltered List has no record with that id and
\* has every other record unchanged, the budget is unchanged, and deleting
\* an absent id raises nothing and changes nothing.
C2_DeleteRemovesOnlyThatId ==
  last.op = "delete" =>
    /\ last.ret.status = "ok"
    /\ Listed(expenses) = {r \in Listed(last.pre.expenses) : r.id # last.args}
    /\ settings = last.pre.settings
    /\ (\A r \in last.pre.expenses : r.id # last.args) => expenses = last.pre.expenses

\* a present id is deleted while another record stays
C2_Witness ==
  /\ last.op = "delete"
  /\ \E r \in last.pre.expenses : r.id = last.args
  /\ expenses # {}
  /\ settings # {}

\* C3: an Add that fails with a validation error (date or amount) leaves the
\* records and the budget setting exactly as they were.
C3_FailedAddWritesNothing ==
  AddFailed =>
    /\ expenses = last.pre.expenses
    /\ settings = last.pre.settings
    /\ issued = last.pre.issued

\* a non-numeric amount is rejected on a non-empty ledger
C3_Witness ==
  /\ AddFailed
  /\ last.args.amount = A_abc
  /\ last.pre.expenses # {}

\* C4 (as stated): every persisted record has a valid id, a non-empty
\* category, a numeric amount and a canonical date, and an Add with an empty
\* category fails instead of persisting a record.
C4_RecordsWellFormed ==
  /\ \A r \in expenses :
       /\ r.id >= 1
       /\ r.category # ""
       /\ r.amount \in Int
       /\ IsCanonical(r.date)
  /\ (last.op = "add" /\ last.args.category = "") => last.ret.status = "error"

\* C5: a successful Add returns a warning exactly when a budget is
\* configured (0 included) and the month-to-date total after the insert is
\* strictly greater than it; the added record's own date matters only
\* through that total.
C5_AddWarnsIffOverBudget ==
  AddOk =>
    LET total == SumAmount(MonthToDate(expenses, last.pre.today))
    IN  /\ last.ret.value # None <=> (lastBudget # None /\ total > lastBudget[1])
        /\ last.ret.value # None =>
             last.ret.value[1] = Warning(total, lastBudget[1])

\* a backdated record is added while the month-to-date total equals the budget
C5_Witness ==
  /\ AddOk
  /\ lastBudget = Some(10)
  /\ SumAmount(MonthToDate(expenses, last.pre.today)) = 10
  /\ last.ret.value = None
  /\ \E r \in NewRecords : r \notin MonthToDate(expenses, last.pre.today)

\* C6 (as stated): a period summary warns exactly when a budget is
\* configured (0 included) and the period's grand total is strictly greater
\* than it, and the warning carries total - budget.
C6_SummaryWarnsIffOverBudget ==
  (last.op = "show_summary" /\ last.ret.status = "ok") =>
    LET v == last.ret.value
    IN  /\ v.warning # None <=> (lastBudget # None /\ v.total > lastBudget[1])
        /\ v.warning # None => v.warning[1] = v.total - lastBudget[1]

C8_ListSelectsAndOrders ==
  last.op = "list" =>
    LET q == last.ret.value
        selected == IF last.args[1] # NoText /\ last.args[2] # NoText
                    THEN Within(expenses, last.args[1], last.args[2])
                    ELSE expenses
    IN  /\ Len(q) = Cardinality(selected)
        /\ {q[i] : i \in 1..Len(q)} = selected
        /\ \A i, j \in 1..Len(q) : i < j =>
             \/ /\ DayLeq(CanonDay(q[j].date), CanonDay(q[i].date))
                /\ q[i].date # q[j].date
             \/ q[i].date = q[j].date /\ q[i].id > q[j].id

\* only one bound is given and both records come back, newest first
C8_Witness ==
  /\ last.op = "list"
  /\ last.args = <<D_0301, NoText>>
  /\ Len(last.ret.value) = 2
  /\ last.ret.value[1].date # last.ret.value[2].date

\* C9: GetBudget returns unset before any SetBudget and the latest SetBudget
\* value afterwards, at most one value is stored, Add and Delete leave it
\* alone, and SetBudget leaves the records alone.
C9_BudgetIsLatestSet ==
  /\ get_budget_limit(settings) = lastBudget
  /\ Cardinality(settings) <= 1
  /\ last.op \in {"add", "delete"} => settings = last.pre.settings
  /\ last.op = "set_budget" => expenses = last.pre.expenses

\* a budget replaces a different earlier one on a non-empty ledger
C9_Witness ==
  /\ last.op = "set_budget"
  /\ last.pre.settings # {}
  /\ get_budget_limit(last.pre.settings) # Some(last.args)
  /\ expenses # {}

====
